---- MODULE Spec2Model ----
(***************************************************************************)
(* Model of the Perplexity completions MCP bridge.                         *)
(*                                                                         *)
(* Three components are modelled, each with its own specifications:        *)
(*   StreamSpec   - the SSE stream consumers (decoder + accumulator +      *)
(*                  projector) of part_000, part_001 and server.ts;        *)
(*                  ConsolidatedSpec, EdgeSpec, ShapeSpec and RestreamSpec *)
(*                  run the same consumers on other populations of frames; *)
(*   FetchSpec    - performSearch / retryFetch with the deadline timer;    *)
(*   DispatchSpec - the tool-call entry points and their validation;       *)
(*                  ArgsSpec varies the optional arguments, ServeSpec and  *)
(*                  AuthSpec follow HTTP requests through the middleware,  *)
(*                  FlowSpec runs two tool calls at once.                  *)
(***************************************************************************)
EXTENDS Integers, Sequences, FiniteSets, TLC

VARIABLES
    \* ---- stream consumer state ----
    consumer,       \* which stream consumer function is running
    frames,         \* the logical lines the upstream sent (names, see Line)
    wire,           \* the upstream byte stream, as a sequence of units
    pos,            \* number of units already handed out by reader.read()
    buffer,         \* `buffer` : the retained incomplete line
    content,        \* `content` / `accumulatedContent`
    searchResults,  \* `searchResults` : <<>> is undefined, <<l>> is the list l
    lastChunk,      \* `lastChunk` (part_000) : <<>> is undefined
    out,            \* events written to expressRes, in order
    ended,          \* expressRes.end() has been called
    spc,            \* position of the consumer: reading / returned / threw /
                    \* unreadable (threw at the reader check) / responded
    readFailed,     \* reader.read() rejected (upstream body error)
    result,         \* the value the consumer returned
    segments,       \* the `content` array of the tool response built from it
    delivered,      \* events of `out` the caller's socket has taken so far
    released        \* number of reader.releaseLock() calls

streamVars == <<consumer, frames, wire, pos, buffer, content, searchResults,
                lastChunk, out, ended, spc, readFailed, result, segments, delivered,
                released>>

VARIABLES
    \* ---- performSearch / retryFetch state ----
    fvariant,       \* which file's performSearch runs: part_000 or part_001
    fstream,        \* the `stream` flag of the upstream request
    fpc,            \* where performSearch is suspended
    attempt,        \* `attempt` of retryFetch
    calls,          \* number of undiciFetch calls issued
    timerArmed,     \* the setTimeout of performSearch is pending
    aborted,        \* controller.signal.aborted
    elapsed,        \* the deadline (`timeout` ms after the start) has passed
    replies,        \* what the upstream answered, per attempt (0: network failure)
    returned,       \* status of the response retryFetch returned (0: none)
    bodyReads,      \* chunks of the response body read so far
    outcome,        \* how performSearch ended
    errorText       \* status and body text in the message of the upstream error

fetchVars == <<fvariant, fstream, fpc, attempt, calls, timerArmed, aborted,
               elapsed, replies, returned, bodyReads, outcome, errorText>>

VARIABLES
    \* ---- request dispatcher state ----
    entry,          \* the entry point that received the tool call
    toolName,       \* `name` of the call
    hasArgs,        \* `arguments` is present (an object)
    query,          \* kind of value of arguments.query
    streamArg,      \* kind of value of arguments.stream
    dpc,            \* received / searching / responded
    netCalls,       \* upstream network calls issued for this request
    upstreamStream, \* `stream` of the upstream request body
    response,       \* what the caller got
    sent,           \* number of responses written to the caller
    args,           \* the optional arguments model, max_tokens, temperature
    body,           \* model, max_tokens, temperature of the upstream request body
    requests,       \* HTTP requests received in the current 15-minute window
    served,         \* per IP address, the requests passed on to a route handler
    req,            \* one HTTP request on its way through the middleware chain
    flows,          \* per concurrent tool call, the closure of its
                    \* consumePerplexityStream invocation
    searchError     \* performSearch threw and the handler's catch block ran

dispatchVars == <<entry, toolName, hasArgs, query, streamArg, dpc, netCalls,
                  upstreamStream, response, sent, args, body, requests, served,
                  req, flows, searchError>>

vars == <<streamVars, fetchVars, dispatchVars>>

-----------------------------------------------------------------------------
(* Bounds *)

MaxFrames == 3

\* chunks a response body is read in before it ends
MaxBodyReads == 2

\* undelivered events at which expressRes.write() returns false
HighWaterMark == 2
\* HTTP requests arriving within one window
MaxRequests == 101

-----------------------------------------------------------------------------
(* Wire units.  The byte stream is modelled as a sequence of tokens: a read *)
(* chunk may end between any two tokens.  A token is the field name        *)
(* 'data:', the sentinel word 'DONE', a JSON member ("key": value), or a   *)
(* single character.                                                       *)

Ch(c) == [t |-> "ch", k |-> c, v |-> <<>>]
Fld(k, v) == [t |-> "fld", k |-> k, v |-> v]

NL == Ch("\n")

\* 'data: '
DataPrefix == <<Ch("data:"), Ch(" ")>>

\* '[DONE]'
DoneText == <<Ch("["), Ch("DONE"), Ch("]")>>

\* Citations (SearchResult objects)
CitA == [title |-> "tA", url |-> "uA"]
CitB == [title |-> "tB", url |-> "uB", snippet |-> "sB"]

Undefined == <<>>
Some(x) == <<x>>
IsDefined(o) == o # <<>>
Val(o) == o[1]

\* The upstream chunks (parsed JSON objects) the model draws from.
ChunkOf(name) ==
    CASE name = "T1" -> [choices |-> << [delta |-> [content |-> <<"a">>]] >>]
      [] name = "T2" -> [choices |-> << [delta |-> [content |-> <<"b", "c">>]] >>]
      [] name = "CA" -> [choices |-> << [delta |-> [content |-> <<>>]] >>,
                         search_results |-> <<CitA>>]
      [] name = "CB" -> [choices |-> << [delta |-> [content |-> <<"d">>]] >>,
                         search_results |-> <<CitB, CitA>>]
      [] name = "E0" -> [choices |-> << [delta |-> [content |-> <<>>]] >>]
      [] name = "ES" -> [choices |-> << [delta |-> [content |-> <<>>]] >>,
                         search_results |-> <<>>]
      [] name = "U1" -> [id |-> <<"i1">>, model |-> <<"m1">>,
                         choices |-> << [delta |-> [content |-> <<"a">>]] >>,
                         usage |-> [total_tokens |-> 7]]
      [] name = "M2" -> [id |-> <<"i2">>, model |-> <<"m2">>,
                         choices |-> << [delta |-> [content |-> <<"b">>]] >>]
      [] name = "NC" -> [id |-> <<"i3">>, model |-> <<"m3">>]
      [] name = "NS" -> [search_results |-> <<CitA>>]

ChunkNames == {"T1", "T2", "CA", "CB"}

\* chunks without text: an empty delta, alone or with an empty citation list
EmptyChunkNames == {"E0", "ES"}

\* with "U1" and "M2", the chunks that carry id and model, with or without
\* usage
AllChunkNames == ChunkNames \cup EmptyChunkNames \cup {"U1", "M2"}

\* Order in which JSON.stringify writes the members of a chunk
KeyOrder == <<"id", "model", "choices", "search_results", "usage">>

RECURSIVE Members(_, _)
Members(chunk, i) ==
    IF i > Len(KeyOrder) THEN <<>>
    ELSE (IF KeyOrder[i] \in DOMAIN chunk
          THEN <<Fld(KeyOrder[i], chunk[KeyOrder[i]])>> ELSE <<>>)
         \o Members(chunk, i + 1)

\* The JSON text of a chunk
Stringify(chunk) == <<Ch("{")>> \o Members(chunk, 1) \o <<Ch("}")>>

\* The text of one upstream line, without its newline
Line(name) ==
    CASE name \in AllChunkNames \cup {"NC", "NS"} ->
             DataPrefix \o Stringify(ChunkOf(name))
      [] name = "DONE"  -> DataPrefix \o DoneText
      [] name = "BAD"   -> DataPrefix \o <<Ch("{")>>
      [] name = "BLANK" -> <<>>

FrameNames == ChunkNames \cup {"DONE", "BAD", "BLANK"}

RECURSIVE Wire(_)
Wire(fs) == IF fs = <<>> THEN <<>> ELSE Line(Head(fs)) \o <<NL>> \o Wire(Tail(fs))

-----------------------------------------------------------------------------
(* Stream Decoder: buffer.split('\n'), frame recognition, JSON.parse *)

IsNL(u) == u.k = "\n"

\* the pieces of s between newlines, scanning from index i; the current
\* piece started at index start
RECURSIVE SplitFrom(_, _, _)
SplitFrom(s, i, start) ==
    IF i > Len(s) THEN <<SubSeq(s, start, Len(s))>>
    ELSE IF IsNL(s[i]) THEN <<SubSeq(s, start, i - 1)>> \o SplitFrom(s, i + 1, i + 1)
    ELSE SplitFrom(s, i + 1, start)

\* buffer.split('\n')
Split(s) == SplitFrom(s, 1, 1)

\* lines after lines.pop()
AllButLast(ls) == SubSeq(ls, 1, Len(ls) - 1)

\* faulty variant: the incomplete line is dropped instead of retained
PoppedDropped(ls) == <<>>

\* the value of lines.pop() || ''
Popped(ls) == ls[Len(ls)]

IsSpace(u) == u.t = "ch" /\ u.k \in {" ", "\t", "\r"}

\* !line.trim()
TrimIsEmpty(line) == \A i \in 1..Len(line) : IsSpace(line[i])

\* line.startsWith('data: ')
StartsWithData(line) ==
    /\ Len(line) >= Len(DataPrefix)
    /\ \A i \in 1..Len(DataPrefix) : line[i] = DataPrefix[i]

\* JSON.parse(data): Undefined stands for a SyntaxError
JsonParse(text) ==
    IF /\ Len(text) >= 2
       /\ text[1] = Ch("{")
       /\ text[Len(text)] = Ch("}")
       /\ \A i \in 2..(Len(text) - 1) : text[i].t = "fld"
    THEN LET idx == 2..(Len(text) - 1)
             keys == {text[i].k : i \in idx}
             last(k) == CHOOSE i \in idx :
                            text[i].k = k /\ \A j \in idx : text[j].k = k => j <= i
         IN Some([k \in keys |-> text[last(k)].v])
    ELSE Undefined

\* chunk.choices[0]?.delta?.content ; err is the TypeError of undefined[0]
DeltaOf(chunk) ==
    IF "choices" \notin DOMAIN chunk THEN [err |-> TRUE, d |-> Undefined]
    ELSE IF chunk.choices = <<>> THEN [err |-> FALSE, d |-> Undefined]
    ELSE IF "delta" \notin DOMAIN chunk.choices[1] THEN [err |-> FALSE, d |-> Undefined]
    ELSE IF "content" \notin DOMAIN chunk.choices[1].delta THEN [err |-> FALSE, d |-> Undefined]
    ELSE [err |-> FALSE, d |-> Some(chunk.choices[1].delta.content)]

\* if (delta): a defined, non-empty string
Truthy(d) == IsDefined(d) /\ Val(d) # <<>>

\* chunk.search_results as a condition: arrays are truthy, also when empty
HasSearchResults(chunk) == "search_results" \in DOMAIN chunk

-----------------------------------------------------------------------------
(* Result Projector helpers *)

RECURSIVE FormatItems(_, _)
FormatItems(results, i) ==
    IF i > Len(results) THEN <<>>
    ELSE <<ToString(i), results[i].title, results[i].url>>
         \o (IF "snippet" \in DOMAIN results[i] THEN <<results[i].snippet>> ELSE <<>>)
         \o FormatItems(results, i + 1)

\* formatSearchResults
formatSearchResults(results) ==
    IF Len(results) = 0 THEN <<>>
    ELSE <<"## Sources">> \o FormatItems(results, 1)

Placeholder == <<"No response generated.">>

Event(kind, text, results, n) == [kind |-> kind, text |-> text, results |-> results, n |-> n]

ContentEvent(delta) == Event("content", delta, Undefined, 0)
CitationsEvent(sr) == Event("citations", formatSearchResults(sr), Undefined, 0)
DoneMarker == Event("done", <<>>, Undefined, 0)
ErrorEvent == Event("error", <<>>, Undefined, 0)
ProgressEvent(n) == Event("progress", <<>>, Undefined, n)
FinalEvent(text, sr) == Event("final", text, sr, 0)

-----------------------------------------------------------------------------
(* Response Accumulator: the body of the `for (const line of lines)` loop  *)

Consumers == {"consumePerplexityStream", "handleStreamingResponse",
              "streamPerplexityToSSE", "streamPerplexityToJsonRpcSSE"}

\* consumers that return the accumulated text to their caller
Accumulators == {"consumePerplexityStream", "handleStreamingResponse"}

\* consumers that write to the caller's response while reading
Restreamers == {"streamPerplexityToSSE", "streamPerplexityToJsonRpcSSE"}

\* faulty variant: the delta replaces the text
AccumulateLatest(text, d) == IF Truthy(d) THEN Val(d) ELSE text

\* if (delta) { content += delta; }
Accumulate(text, d) == IF Truthy(d) THEN text \o Val(d) ELSE text

\* faulty variant: a record without citations clears the stored list
StoreCitationsOrClear(chunk, sr) ==
    IF HasSearchResults(chunk) /\ ~IsDefined(sr) THEN Some(chunk.search_results)
    ELSE IF HasSearchResults(chunk) THEN sr ELSE Undefined

\* part_000 consumePerplexityStream: if (chunk.search_results && !searchResults)
StoreCitationsOnce(chunk, sr) ==
    IF HasSearchResults(chunk) /\ ~IsDefined(sr) THEN Some(chunk.search_results) ELSE sr

\* faulty variant: the first list is kept
StoreCitationsFirst(chunk, sr) ==
    IF HasSearchResults(chunk) /\ ~IsDefined(sr) THEN Some(chunk.search_results) ELSE sr

\* the other consumers: if (chunk.search_results) searchResults = chunk.search_results
StoreCitations(chunk, sr) ==
    IF HasSearchResults(chunk) THEN Some(chunk.search_results) ELSE sr

\* faulty variant: the exception is not caught inside the loop
OnParseErrorThrow(c, st) == [st EXCEPT !.halt = "throw"]

\* catch (e) { continue; } : the frame is skipped, st is the state so far
OnParseError(c, st) == st

\* what the consumer writes for a truthy delta
WriteDelta(c, d, st) ==
    CASE c = "streamPerplexityToSSE" -> st.out \o <<ContentEvent(Val(d))>>
      [] c = "streamPerplexityToJsonRpcSSE" ->
             st.out \o <<ProgressEvent(Len(Accumulate(st.content, d)))>>
      [] OTHER -> st.out

\* the try block after JSON.parse succeeded
OnChunk(c, chunk, st) ==
    LET st1 == IF c = "consumePerplexityStream"
               THEN [st EXCEPT !.last = Some(chunk)] ELSE st
        dl == DeltaOf(chunk)
    IN IF dl.err THEN OnParseError(c, st1)
       ELSE [st1 EXCEPT
               !.content = IF c = "streamPerplexityToSSE" THEN st1.content
                           ELSE Accumulate(st1.content, dl.d),
               !.out = IF Truthy(dl.d) THEN WriteDelta(c, dl.d, st1) ELSE st1.out,
               !.sr = IF c = "consumePerplexityStream"
                      THEN StoreCitationsOnce(chunk, st1.sr)
                      ELSE StoreCitations(chunk, st1.sr)]

\* faulty variant: every consumer returns at the sentinel
OnDoneReturns(c, st) == [st EXCEPT !.halt = "return"]

\* if (data === '[DONE]') { ... }
OnDone(c, st) ==
    CASE c = "streamPerplexityToSSE" ->
             [st EXCEPT !.out = st.out
                                \o (IF IsDefined(st.sr) THEN <<CitationsEvent(Val(st.sr))>> ELSE <<>>)
                                \o <<DoneMarker>>,
                        !.halt = "return"]
      [] c = "streamPerplexityToJsonRpcSSE" ->
             [st EXCEPT !.out = st.out \o <<FinalEvent(st.content, st.sr)>>,
                        !.halt = "return"]
      [] OTHER -> [st EXCEPT !.halt = "break"]

ProcessLine(c, line, st) ==
    IF TrimIsEmpty(line) \/ ~StartsWithData(line) THEN st
    ELSE LET data == SubSeq(line, Len(DataPrefix) + 1, Len(line))
             parsed == JsonParse(data)
         IN IF data = DoneText THEN OnDone(c, st)
            ELSE IF IsDefined(parsed) THEN OnChunk(c, Val(parsed), st)
            ELSE OnParseError(c, st)

RECURSIVE ProcessLines(_, _, _, _)
ProcessLines(c, lines, i, st) ==
    IF i > Len(lines) \/ st.halt # "no" THEN st
    ELSE ProcessLines(c, lines, i + 1, ProcessLine(c, lines[i], st))

NoResult == [text |-> <<>>, id |-> <<>>, model |-> <<>>,
             search_results |-> Undefined, usage |-> Undefined]

\* lastChunk?.f || dflt
LastField(last, f, dflt) ==
    IF IsDefined(last) /\ f \in DOMAIN Val(last) /\ Val(last)[f] # <<>>
    THEN Val(last)[f] ELSE dflt

\* faulty variant: the usage is left out of the result
LastUsageDropped(last) == Undefined

\* lastChunk?.usage
LastUsage(last) ==
    IF IsDefined(last) /\ "usage" \in DOMAIN Val(last) THEN Some(Val(last).usage) ELSE Undefined

\* faulty variant: the accumulated text is returned as it is
ReturnValueNoPlaceholder(c, text, sr, last) ==
    CASE c = "consumePerplexityStream" ->
             [text |-> text,
              id |-> LastField(last, "id", <<"unknown">>),
              model |-> LastField(last, "model", <<"sonar">>),
              search_results |-> sr,
              usage |-> LastUsage(last)]
      [] OTHER -> NoResult

\* the value returned after the read loop
ReturnValue(c, text, sr, last) ==
    CASE c = "consumePerplexityStream" ->
             [text |-> IF text # <<>> THEN text ELSE Placeholder,
              id |-> LastField(last, "id", <<"unknown">>),
              model |-> LastField(last, "model", <<"sonar">>),
              search_results |-> sr,
              usage |-> LastUsage(last)]
      [] c = "handleStreamingResponse" ->
             [NoResult EXCEPT !.text = text \o (IF IsDefined(sr)
                                                THEN formatSearchResults(Val(sr)) ELSE <<>>)]
      [] OTHER -> NoResult

\* faulty variant: the stream is closed without the terminal marker
WriteAtEndNoMarker(c, text, sr) ==
    CASE c = "streamPerplexityToSSE" ->
             (IF IsDefined(sr) THEN <<CitationsEvent(Val(sr))>> ELSE <<>>)
      [] c = "streamPerplexityToJsonRpcSSE" ->
             <<FinalEvent(IF text # <<>> THEN text ELSE Placeholder, sr)>>
      [] OTHER -> <<>>

\* what a re-streamer writes when the stream ends without [DONE]
WriteAtEnd(c, text, sr) ==
    CASE c = "streamPerplexityToSSE" ->
             (IF IsDefined(sr) THEN <<CitationsEvent(Val(sr))>> ELSE <<>>) \o <<DoneMarker>>
      [] c = "streamPerplexityToJsonRpcSSE" ->
             <<FinalEvent(IF text # <<>> THEN text ELSE Placeholder, sr)>>
      [] OTHER -> <<>>

-----------------------------------------------------------------------------
(* Stream consumer actions *)

StreamIdle ==
    /\ pos = 0 /\ buffer = <<>> /\ content = <<>>
    /\ searchResults = Undefined /\ lastChunk = Undefined
    /\ out = <<>> /\ ended = FALSE /\ readFailed = FALSE /\ result = NoResult
    /\ segments = <<>> /\ delivered = 0 /\ released = 0

Streams == UNION {[1..n -> FrameNames] : n \in 0..MaxFrames}

NoErrorText == [status |-> 0, body |-> "none"]

\* performSearch is not running
FetchIdle ==
    /\ fvariant = "part_000" /\ fstream = TRUE /\ fpc = "idle"
    /\ attempt = 0 /\ calls = 0 /\ timerArmed = FALSE /\ aborted = FALSE
    /\ elapsed = FALSE /\ replies = <<>> /\ returned = 0 /\ bodyReads = 0
    /\ outcome = "pending" /\ errorText = NoErrorText

\* JSON values of the optional arguments: a string, a number, or absent
Str(x) == [type |-> "string", s |-> x, n |-> 0]
Num(k) == [type |-> "number", s |-> "", n |-> k]
Absent == [type |-> "undefined", s |-> "", n |-> 0]

\* none of model, max_tokens, temperature is set
NoArgs == [model |-> Absent, max_tokens |-> Absent, temperature |-> Absent]

\* the callers' IP addresses
IPs == {"ip1", "ip2"}

\* no HTTP request has arrived in the window
NoRequests ==
    /\ requests = 0 /\ served = [ip \in IPs |-> 0]
    /\ req = [path |-> "none", scheme |-> "none", parts |-> <<>>, status |-> 0,
              next |-> FALSE]
    /\ flows = <<>> /\ searchError = FALSE

NoResponse == [http |-> 0, shape |-> "none", isError |-> "absent", code |-> 0]

\* no tool call is being dispatched
DispatchIdle ==
    /\ entry = "none" /\ toolName = "none" /\ hasArgs = FALSE
    /\ query = "absent" /\ streamArg = "absent" /\ dpc = "idle"
    /\ netCalls = 0 /\ upstreamStream = "unset" /\ response = NoResponse
    /\ sent = 0 /\ args = NoArgs /\ body = NoArgs
    /\ NoRequests

StreamInit ==
    /\ FetchIdle
    /\ DispatchIdle
    /\ consumer \in Consumers
    /\ frames \in Streams
    /\ wire = Wire(frames)
    /\ spc = "reading"
    /\ StreamIdle

\* faulty variant: the lock is not released
FinallyKeepsLock(n) == n

\* finally { reader.releaseLock(); }
Finally(n) == n + 1

\* one `await reader.read()` that delivers k units, and the loop body after it
Read ==
    /\ spc = "reading"
    /\ \E k \in 1..(Len(wire) - pos) :
      \E lines \in {Split(buffer \o SubSeq(wire, pos + 1, pos + k))} :
      \E st \in {ProcessLines(consumer, AllButLast(lines), 1,
                               [content |-> content, sr |-> searchResults,
                                last |-> lastChunk, out |-> out, halt |-> "no"])} :
           /\ pos' = pos + k
           /\ buffer' = Popped(lines)
           /\ content' = st.content
           /\ searchResults' = st.sr
           /\ lastChunk' = st.last
           /\ out' = IF st.halt = "throw" /\ consumer \in Restreamers
                     THEN st.out \o <<ErrorEvent>> ELSE st.out
           /\ ended' = (st.halt = "return" \/ (st.halt = "throw" /\ consumer \in Restreamers))
           /\ spc' = CASE st.halt = "return" -> "returned"
                       [] st.halt = "throw" ->
                            IF consumer \in Restreamers THEN "returned" ELSE "threw"
                       [] OTHER -> "reading"
           /\ released' = IF st.halt \in {"return", "throw"} THEN Finally(released)
                          ELSE released
    /\ UNCHANGED <<consumer, frames, wire, readFailed, result, segments, delivered>>
    /\ UNCHANGED <<fetchVars, dispatchVars>>

\* reader.read() reports done: the code after the while loop
ReadDone ==
    /\ spc = "reading"
    /\ pos = Len(wire)
    /\ spc' = "returned"
    /\ result' = ReturnValue(consumer, content, searchResults, lastChunk)
    /\ out' = out \o WriteAtEnd(consumer, content, searchResults)
    /\ ended' = (consumer \in Restreamers)
    /\ released' = Finally(released)
    /\ UNCHANGED <<consumer, frames, wire, pos, buffer, content, searchResults,
                   lastChunk, readFailed, segments, delivered>>
    /\ UNCHANGED <<fetchVars, dispatchVars>>

\* reader.read() rejects: finally (and, for the re-streamers, the catch block)
ReadError ==
    /\ spc = "reading"
    /\ readFailed' = TRUE
    /\ released' = Finally(released)
    /\ IF consumer \in Restreamers
       THEN /\ out' = out \o <<ErrorEvent>>
            /\ ended' = TRUE
            /\ spc' = "returned"
       ELSE /\ spc' = "threw"
            /\ UNCHANGED <<out, ended>>
    /\ UNCHANGED <<consumer, frames, wire, pos, buffer, content, searchResults,
                   lastChunk, result, segments, delivered>>
    /\ UNCHANGED <<fetchVars, dispatchVars>>

\* perplexityResponse.body is null: `if (!reader) throw` before the try
\* block.  The exception leaves the consumer; the callers of the
\* re-streamers return its promise without awaiting it, so their catch
\* block does not run and nothing is written to the caller.
NoReader ==
    /\ spc = "reading"
    /\ pos = 0
    /\ spc' = "unreadable"
    /\ UNCHANGED <<consumer, frames, wire, pos, buffer, content, searchResults,
                   lastChunk, out, ended, readFailed, result, segments, delivered,
                   released>>
    /\ UNCHANGED <<fetchVars, dispatchVars>>

TextSeg(text) == [type |-> "text", text |-> text, results |-> <<>>]
ResourceSeg(list) == [type |-> "resource", text |-> <<>>, results |-> list]

\* faulty variant: the citations are appended to the text, as in stdio mode
ConsolidatedContentInlined(r) ==
    <<TextSeg(r.text \o (IF IsDefined(r.search_results)
                         THEN formatSearchResults(Val(r.search_results)) ELSE <<>>))>>

\* part_000 handlers: the content array built from the consumed result
ConsolidatedContent(r) ==
    (IF r.text # <<>> THEN <<TextSeg(r.text)>> ELSE <<>>)
    \o (IF IsDefined(r.search_results) /\ Len(Val(r.search_results)) > 0
        THEN <<ResourceSeg(Val(r.search_results))>> ELSE <<>>)

\* part_000 /mcp/call, non-streaming path: the content array built from
\* the parsed JSON body; data.text is choices[0].message.content
BufferedContent(data) ==
    (IF data.text # <<>> THEN <<TextSeg(data.text)>> ELSE <<>>)
    \o (IF IsDefined(data.search_results) /\ Len(Val(data.search_results)) > 0
        THEN <<ResourceSeg(Val(data.search_results))>> ELSE <<>>)

\* part_001 handler: content: [{ type: "text", text: result }]
StdioContent(r) == <<TextSeg(r.text)>>

\* the handler builds the tool response from what the consumer returned
Project ==
    /\ spc = "returned"
    /\ consumer \notin Restreamers
    /\ spc' = "responded"
    /\ segments' = IF consumer = "consumePerplexityStream"
                   THEN ConsolidatedContent(result) ELSE StdioContent(result)
    /\ UNCHANGED <<consumer, frames, wire, pos, buffer, content, searchResults,
                   lastChunk, out, ended, readFailed, result, delivered, released>>
    /\ UNCHANGED <<fetchVars, dispatchVars>>

StreamNext == Read \/ ReadDone \/ ReadError \/ NoReader \/ Project

StreamSpec == StreamInit /\ [][StreamNext]_vars

\* the caller's socket takes the oldest event still buffered in the response
Drain ==
    /\ delivered < Len(out)
    /\ delivered' = delivered + 1
    /\ UNCHANGED <<consumer, frames, wire, pos, buffer, content, searchResults,
                   lastChunk, out, ended, spc, readFailed, result, segments, released>>
    /\ UNCHANGED <<fetchVars, dispatchVars>>

\* the frames the live re-stream is exercised with against a slow caller
RestreamFrames == {"T1", "T2", "CB", "DONE"}

\* streamPerplexityToSSE writing to a caller that reads at its own pace
RestreamInit ==
    /\ FetchIdle
    /\ DispatchIdle
    /\ consumer = "streamPerplexityToSSE"
    /\ frames \in UNION {[1..n -> RestreamFrames] : n \in 0..MaxFrames}
    /\ wire = Wire(frames)
    /\ spc = "reading"
    /\ StreamIdle

RestreamNext == Read \/ ReadDone \/ ReadError \/ NoReader \/ Drain

RestreamSpec == RestreamInit /\ [][RestreamNext]_vars

\* the upstream closes the connection right after the last line, without
\* its newline
Unterminated(fs) == SubSeq(Wire(fs), 1, Len(Wire(fs)) - 1)

\* frames for the edge cases of the decoder and the accumulator: an empty
\* citation list, id / model / usage, frames after the sentinel, a last line
\* without newline
EdgeFrames == {"CB", "ES", "U1", "M2", "DONE"}

EdgeInit ==
    /\ FetchIdle
    /\ DispatchIdle
    /\ consumer \in {"consumePerplexityStream", "handleStreamingResponse",
                    "streamPerplexityToSSE"}
    /\ frames \in UNION {[1..n -> EdgeFrames] : n \in 1..MaxFrames}
    /\ wire \in {Wire(frames), Unterminated(frames)}
    /\ spc = "reading"
    /\ StreamIdle

EdgeSpec == EdgeInit /\ [][StreamNext]_vars

\* frames for the decoder's error recovery: a payload that is not JSON
\* ("BAD") and JSON records without `choices`, one with id and model ("NC"),
\* one with a citation list ("NS"), next to a complete record ("U1")
ShapeInit ==
    /\ FetchIdle
    /\ DispatchIdle
    /\ consumer \in Accumulators
    /\ frames \in UNION {[1..n -> {"U1", "NC", "NS", "BAD"}] : n \in 1..MaxFrames}
    /\ wire = Wire(frames)
    /\ spc = "reading"
    /\ StreamIdle

ShapeSpec == ShapeInit /\ [][StreamNext]_vars

\* the frames the consolidated mode is exercised with
ConsolidatedFrames == {"T1", "CA", "CB", "E0", "ES", "DONE"}

ConsolidatedStreams == UNION {[1..n -> ConsolidatedFrames] : n \in 0..MaxFrames}

\* consumePerplexityStream behind a part_000 handler
ConsolidatedInit ==
    /\ FetchIdle
    /\ DispatchIdle
    /\ consumer = "consumePerplexityStream"
    /\ frames \in ConsolidatedStreams
    /\ wire = Wire(frames)
    /\ spc = "reading"
    /\ StreamIdle

ConsolidatedSpec == ConsolidatedInit /\ [][StreamNext]_vars

-----------------------------------------------------------------------------
(* Transport Client: retryFetch and the deadline of performSearch *)

\* statuses the upstream may answer with
Statuses == {200, 404, 408, 429, 500, 501, 502, 503, 504}

\* faulty variant: one attempt too many
MaxAttemptsOffByOne == 2 + 1

\* retryFetch(url, options, 2, 300)
MaxAttempts == 2

\* faulty variant: the list of the README, without 408
RetryableWithout408 == {429, 500, 502, 503, 504}

\* RETRYABLE_STATUS
RETRYABLE_STATUS == {408, 429, 500, 502, 503, 504}

\* response.ok
Ok(status) == status >= 200 /\ status <= 299

\* faulty variant: every failed response is retried
RetryAnyFailure(status) == ~Ok(status)

\* RETRYABLE_STATUS.has(response.status)
IsRetryable(status) == status \in RETRYABLE_STATUS

\* retryFetch returns the response instead of retrying
ReturnsResponse(status, att) ==
    Ok(status) \/ ~IsRetryable(status) \/ att = MaxAttempts - 1

\* the catch block of retryFetch: rethrow or fall through to the backoff
CatchInRetry(errName, att) ==
    IF errName = "AbortError" THEN "rethrow"
    ELSE IF att = MaxAttempts - 1 THEN "rethrow"
    ELSE "retry"

\* faulty variant: the abort is reported as a network error
ClassifyAllNetwork(errName) == "network"

\* the catch block of performSearch: which error it throws
Classify(errName) == IF errName = "AbortError" THEN "timeout" ELSE "network"

\* faulty variant: only server errors are thrown
ThrowsOnServerError(status) == status >= 500

\* if (!response.ok) of performSearch
ThrowsOnStatus(status) == ~Ok(status)

FetchInit ==
    /\ DispatchIdle
    /\ consumer = "consumePerplexityStream" /\ frames = <<>> /\ wire = <<>>
    /\ spc = "idle" /\ StreamIdle
    /\ fvariant \in {"part_000", "part_001"}
    /\ fstream \in BOOLEAN
    /\ fpc = "loop"
    /\ attempt = 0 /\ calls = 0
    /\ timerArmed = TRUE /\ aborted = FALSE /\ elapsed = FALSE
    /\ replies = <<>> /\ returned = 0 /\ bodyReads = 0
    /\ outcome = "pending" /\ errorText = NoErrorText

\* performSearch throws: clearTimeout, then the error
Throw(kind) ==
    /\ fpc' = "done"
    /\ outcome' = kind
    /\ timerArmed' = FALSE

\* faulty variant: the loop does not look at the signal before an attempt
SignalIgnored == FALSE

\* options.signal?.aborted at the top of the loop
SignalAborted == aborted

\* top of the for loop of retryFetch, up to the await of undiciFetch
LoopHead ==
    /\ fpc = "loop"
    /\ IF attempt >= MaxAttempts
       THEN Throw(Classify("Error")) /\ UNCHANGED calls
       ELSE IF SignalAborted
       THEN Throw(Classify("AbortError")) /\ UNCHANGED calls
       ELSE /\ calls' = calls + 1
            /\ fpc' = "fetching"
            /\ UNCHANGED <<outcome, timerArmed>>
    /\ UNCHANGED <<errorText, fvariant, fstream, attempt, aborted, elapsed, replies,
                   returned, bodyReads>>
    /\ UNCHANGED <<streamVars, dispatchVars>>

\* undiciFetch resolves with a response of the given status
FetchResponds ==
    /\ fpc = "fetching" /\ ~aborted
    /\ \E s \in Statuses :
        /\ replies' = Append(replies, s)
        /\ IF ReturnsResponse(s, attempt)
           THEN /\ returned' = s
                /\ timerArmed' = FALSE
                /\ fpc' = IF ThrowsOnStatus(s) THEN "errText"
                           ELSE IF fstream THEN "body" ELSE "json"
           ELSE /\ fpc' = "backoff"
                /\ UNCHANGED <<returned, timerArmed>>
    /\ UNCHANGED <<errorText, fvariant, fstream, attempt, calls, aborted, elapsed, bodyReads, outcome>>
    /\ UNCHANGED <<streamVars, dispatchVars>>

\* undiciFetch rejects with a network error
FetchFails ==
    /\ fpc = "fetching" /\ ~aborted
    /\ replies' = Append(replies, 0)
    /\ IF CatchInRetry("TypeError", attempt) = "rethrow"
       THEN Throw(Classify("TypeError"))
       ELSE fpc' = "backoff" /\ UNCHANGED <<outcome, timerArmed>>
    /\ UNCHANGED <<errorText, fvariant, fstream, attempt, calls, aborted, elapsed, returned, bodyReads>>
    /\ UNCHANGED <<streamVars, dispatchVars>>

\* undiciFetch rejects because the signal was aborted
FetchAborted ==
    /\ fpc = "fetching" /\ aborted
    /\ IF CatchInRetry("AbortError", attempt) = "rethrow"
       THEN Throw(Classify("AbortError"))
       ELSE fpc' = "backoff" /\ UNCHANGED <<outcome, timerArmed>>
    /\ UNCHANGED <<errorText, fvariant, fstream, attempt, calls, aborted, elapsed, replies,
                   returned, bodyReads>>
    /\ UNCHANGED <<streamVars, dispatchVars>>

\* the backoff setTimeout resolves; attempt++
BackoffDone ==
    /\ fpc = "backoff"
    /\ attempt' = attempt + 1
    /\ fpc' = "loop"
    /\ UNCHANGED <<errorText, fvariant, fstream, calls, timerArmed, aborted, elapsed, replies,
                   returned, bodyReads, outcome>>
    /\ UNCHANGED <<streamVars, dispatchVars>>

\* the deadline passes; the timer callback runs only if the timer is still pending
DeadlineElapses ==
    /\ fpc \notin {"idle", "done"}
    /\ ~elapsed
    /\ elapsed' = TRUE
    /\ IF timerArmed
       THEN aborted' = TRUE /\ timerArmed' = FALSE
       ELSE UNCHANGED <<aborted, timerArmed>>
    /\ UNCHANGED <<errorText, fvariant, fstream, fpc, attempt, calls, replies, returned,
                   bodyReads, outcome>>
    /\ UNCHANGED <<streamVars, dispatchVars>>

\* if (!response.ok) { await response.text(); throw ... } ; when
\* response.text() rejects, a fixed text stands in for the body
ErrTextDone ==
    /\ fpc = "errText"
    /\ fpc' = "done"
    /\ outcome' = "upstream"
    /\ \E readable \in BOOLEAN :
         errorText' = [status |-> returned,
                       body |-> IF readable THEN "response.text()"
                                ELSE "Unable to parse error response"]
    /\ UNCHANGED <<fvariant, fstream, attempt, calls, timerArmed, aborted, elapsed,
                   replies, returned, bodyReads>>
    /\ UNCHANGED <<streamVars, dispatchVars>>

\* await response.json()
JsonDone ==
    /\ fpc = "json"
    /\ fpc' = "done"
    /\ outcome' \in {"ok", "parse"}
    /\ UNCHANGED <<errorText, fvariant, fstream, attempt, calls, timerArmed, aborted, elapsed,
                   replies, returned, bodyReads>>
    /\ UNCHANGED <<streamVars, dispatchVars>>

\* a reader.read() of the streamed body delivers a chunk
BodyChunk ==
    /\ fpc = "body"
    /\ bodyReads < MaxBodyReads
    /\ bodyReads' = bodyReads + 1
    /\ UNCHANGED <<errorText, fvariant, fstream, fpc, attempt, calls, timerArmed, aborted, elapsed,
                   replies, returned, outcome>>
    /\ UNCHANGED <<streamVars, dispatchVars>>

\* reader.read() reports done, or rejects
BodyEnd ==
    /\ fpc = "body"
    /\ fpc' = "done"
    /\ outcome' \in {"ok", "stream"}
    /\ UNCHANGED <<errorText, fvariant, fstream, attempt, calls, timerArmed, aborted, elapsed,
                   replies, returned, bodyReads>>
    /\ UNCHANGED <<streamVars, dispatchVars>>

FetchNext ==
    \/ LoopHead \/ FetchResponds \/ FetchFails \/ FetchAborted \/ BackoffDone
    \/ DeadlineElapses \/ ErrTextDone \/ JsonDone \/ BodyChunk \/ BodyEnd

FetchSpec == FetchInit /\ [][FetchNext]_vars

\* timers fire and continuations run; the upstream is not obliged to answer
FetchFair ==
    /\ WF_vars(LoopHead)
    /\ WF_vars(FetchAborted)
    /\ WF_vars(BackoffDone)
    /\ WF_vars(DeadlineElapses)

FairFetchSpec == FetchSpec /\ FetchFair

-----------------------------------------------------------------------------
(* Request Dispatcher: the tool-call entry points *)

Entries == {"part_001:CallTool", "part_000:/mcp", "part_000:/mcp/call",
            "server.ts:/mcp", "server.ts:/mcp/call"}

Tool == "perplexity-completions"

\* kinds of JSON value the caller may put in arguments.query / arguments.stream
QueryKinds == {"absent", "str", "empty", "num", "null"}
StreamKinds == {"absent", "true", "false", "str"}

\* typeof args.query === 'string'
QueryIsString == query \in {"str", "empty"}

\* typeof stream === 'boolean'
StreamIsBoolean == streamArg \in {"true", "false"}

Resp(http, shape, isError, code) ==
    [http |-> http, shape |-> shape, isError |-> isError, code |-> code]

\* faulty variant: the stdio handler lets the exception escape (no payload)
ErrorResponseEscapes(e, http) ==
    CASE e = "part_001:CallTool" -> Resp(0, "none", "absent", 0)
      [] e \in {"part_000:/mcp", "server.ts:/mcp"} -> Resp(200, "jsonrpc-error", "absent", -32603)
      [] OTHER -> Resp(http, "error", "true", 0)

\* the payload a handler answers a failure with
ErrorResponse(e, http) ==
    CASE e = "part_001:CallTool" -> Resp(0, "content", "true", 0)
      [] e \in {"part_000:/mcp", "server.ts:/mcp"} -> Resp(200, "jsonrpc-error", "absent", -32603)
      [] OTHER -> Resp(http, "error", "true", 0)

UnknownToolResponse(e) ==
    CASE e = "part_001:CallTool" -> Resp(0, "content", "true", 0)
      [] e \in {"part_000:/mcp", "server.ts:/mcp"} -> Resp(200, "jsonrpc-error", "absent", -32601)
      [] OTHER -> Resp(400, "error", "true", 0)

\* the checks a handler makes before it calls performSearch:
\* TRUE when the call is rejected
Rejects(e) ==
    CASE e = "part_000:/mcp" ->
             \* destructuring of undefined args, then query.substring(0, 50)
             ~hasArgs \/ ~QueryIsString
      [] e = "server.ts:/mcp" ->
             \* destructuring of undefined args only
             ~hasArgs
      [] OTHER ->
             \* if (!args) ... ; if (typeof args.query !== 'string') ...
             ~hasArgs \/ ~QueryIsString

\* the `stream` option the handler passes to performSearch
StreamOption(e) ==
    CASE e = "part_001:CallTool" -> IF StreamIsBoolean THEN streamArg ELSE "undefined"
      [] e = "part_000:/mcp" -> "true"
      [] OTHER -> IF StreamIsBoolean THEN streamArg ELSE "false"

\* `stream` of the request body built by performSearch
BodyStream(e, opt) ==
    IF e \in {"server.ts:/mcp", "server.ts:/mcp/call"}
    THEN (IF opt = "true" THEN "true" ELSE "false")          \* options.stream || false
    ELSE (IF opt # "undefined" THEN opt ELSE "true")         \* !== undefined ? ... : true

\* faulty variant: the argument is passed on whatever its type
TypeOrPassed(x, t) == x

\* typeof x === t ? x : undefined
TypeOr(x, t) == IF x.type = t THEN x ELSE Absent

\* the options object the handler passes to performSearch
Options(a) ==
    [model |-> TypeOr(a.model, "string"),
     max_tokens |-> TypeOr(a.max_tokens, "number"),
     temperature |-> TypeOr(a.temperature, "number")]

\* truthiness of a value: '' , 0 and undefined are falsy
TruthyValue(x) == (x.type = "string" /\ x.s # "") \/ (x.type = "number" /\ x.n # 0)

\* performSearch: model = options.model || 'sonar';
\* if (options.max_tokens) ... ; if (options.temperature !== undefined) ...
BuildBody(o) ==
    [model |-> IF TruthyValue(o.model) THEN o.model ELSE Str("sonar"),
     max_tokens |-> IF TruthyValue(o.max_tokens) THEN o.max_tokens ELSE Absent,
     temperature |-> IF o.temperature # Absent THEN o.temperature ELSE Absent]

DispatchInit ==
    /\ FetchIdle
    /\ consumer = "consumePerplexityStream" /\ frames = <<>> /\ wire = <<>>
    /\ spc = "idle" /\ StreamIdle
    /\ entry \in Entries
    /\ toolName \in {Tool, "other-tool"}
    /\ hasArgs \in BOOLEAN
    /\ query \in (IF hasArgs THEN QueryKinds ELSE {"absent"})
    /\ streamArg \in (IF hasArgs THEN StreamKinds ELSE {"absent"})
    /\ dpc = "received"
    /\ netCalls = 0
    /\ upstreamStream = "unset"
    /\ response = NoResponse
    /\ sent = 0 /\ args = NoArgs /\ body = NoArgs
    /\ NoRequests

\* the handler up to its first await: validation, then performSearch up to
\* the first undiciFetch / fetch
Handle ==
    /\ dpc = "received"
    /\ IF entry \in {"part_000:/mcp/call", "server.ts:/mcp/call", "part_001:CallTool"}
          /\ ~hasArgs
       THEN /\ response' = ErrorResponse(entry, 400)
            /\ dpc' = "responded"
            /\ sent' = sent + 1
            /\ UNCHANGED <<netCalls, upstreamStream, body>>
       ELSE IF toolName # Tool
       THEN /\ response' = UnknownToolResponse(entry)
            /\ dpc' = "responded"
            /\ sent' = sent + 1
            /\ UNCHANGED <<netCalls, upstreamStream, body>>
       ELSE IF Rejects(entry)
       THEN /\ response' = ErrorResponse(entry, 400)
            /\ dpc' = "responded"
            /\ sent' = sent + 1
            /\ UNCHANGED <<netCalls, upstreamStream, body>>
       ELSE /\ upstreamStream' = BodyStream(entry, StreamOption(entry))
            /\ body' = BuildBody(Options(args))
            /\ netCalls' = netCalls + 1
            /\ dpc' = "searching"
            /\ UNCHANGED <<response, sent>>
    /\ UNCHANGED <<entry, toolName, hasArgs, query, streamArg, args, requests, served, req, flows,
                   searchError>>
    /\ UNCHANGED <<streamVars, fetchVars>>

\* faulty variant: part_000 re-streams a streamed upstream response as well
SuccessResponseRestreaming(e, us) ==
    CASE e = "part_001:CallTool" -> Resp(0, "content", "false", 0)
      [] us = "true" -> Resp(200, "sse", "absent", 0)
      [] e \in {"part_000:/mcp", "server.ts:/mcp"} -> Resp(200, "jsonrpc-result", "absent", 0)
      [] OTHER -> Resp(200, "content", "false", 0)

\* what the handler answers once performSearch has returned; us is the
\* `stream` of the upstream request.  server.ts re-streams a streamed
\* response as SSE, part_000 consumes it and answers with res.json
SuccessResponse(e, us) ==
    CASE e = "part_001:CallTool" -> Resp(0, "content", "false", 0)
      [] e \in {"server.ts:/mcp", "server.ts:/mcp/call"} /\ us = "true" ->
             Resp(200, "sse", "absent", 0)
      [] e \in {"part_000:/mcp", "server.ts:/mcp"} -> Resp(200, "jsonrpc-result", "absent", 0)
      [] OTHER -> Resp(200, "content", "false", 0)

\* performSearch (and the stream consumer after it) completes
SearchReturns ==
    /\ dpc = "searching"
    /\ dpc' = "responded"
    /\ response' = SuccessResponse(entry, upstreamStream)
    /\ sent' = sent + 1
    /\ UNCHANGED <<entry, toolName, hasArgs, query, streamArg, netCalls, upstreamStream,
                   args, body, requests, served, req, flows, searchError>>
    /\ UNCHANGED <<streamVars, fetchVars>>

\* performSearch (or the stream consumer after it) throws: the catch block
SearchThrows ==
    /\ dpc = "searching"
    /\ dpc' = "responded"
    /\ response' = ErrorResponse(entry, 500)
    /\ sent' = sent + 1
    /\ searchError' = TRUE
    /\ UNCHANGED <<entry, toolName, hasArgs, query, streamArg, netCalls, upstreamStream,
                   args, body, requests, served, req, flows>>
    /\ UNCHANGED <<streamVars, fetchVars>>

DispatchNext == Handle \/ SearchReturns \/ SearchThrows

DispatchSpec == DispatchInit /\ [][DispatchNext]_vars

\* a tool call with a valid query and any optional arguments: values inside
\* and outside the schema's enum and ranges, and values of the wrong type
ArgsInit ==
    /\ FetchIdle
    /\ consumer = "consumePerplexityStream" /\ frames = <<>> /\ wire = <<>>
    /\ spc = "idle" /\ StreamIdle
    /\ entry \in Entries
    /\ toolName = Tool
    /\ hasArgs = TRUE
    /\ query = "str"
    /\ streamArg \in StreamKinds
    /\ args \in [model : {Absent, Str("sonar"), Str("sonar-pro"),
                           Str("sonar-reasoning"), Str(""), Num(7)},
                  max_tokens : {Absent, Num(0), Num(1), Num(2048), Num(2049),
                                Num(4096), Num(4097), Num(-1), Str("100")},
                  temperature : {Absent, Num(0), Num(2), Num(3), Num(-1),
                                 Str("hot")}]
    /\ dpc = "received"
    /\ netCalls = 0
    /\ upstreamStream = "unset"
    /\ response = NoResponse
    /\ sent = 0
    /\ body = NoArgs
    /\ NoRequests

ArgsSpec == ArgsInit /\ [][DispatchNext]_vars

\* what consumer c returns for the frames fs when one read delivers them all
Consume(c, fs) ==
    LET st == ProcessLines(c, AllButLast(Split(Wire(fs))), 1,
                           [content |-> <<>>, sr |-> Undefined, last |-> Undefined,
                            out |-> <<>>, halt |-> "no"])
    IN ReturnValue(c, st.content, st.sr, st.last)

\* faulty variant: buffer, content, searchResults and lastChunk are
\* module-level variables, those of the first call
SharedClosure(f, c) == f[1]

\* the local variables of call c (let buffer, content, searchResults,
\* lastChunk inside consumePerplexityStream)
Closure(f, c) == f[c]

\* two tool calls are served at once, each consuming its own upstream stream
FlowInit ==
    /\ FetchIdle
    /\ consumer = "consumePerplexityStream" /\ frames = <<>> /\ wire = <<>>
    /\ spc = "idle" /\ StreamIdle
    /\ entry = "none" /\ toolName = "none" /\ hasArgs = FALSE
    /\ query = "absent" /\ streamArg = "absent" /\ dpc = "idle"
    /\ netCalls = 0 /\ upstreamStream = "unset" /\ response = NoResponse
    /\ sent = 0 /\ args = NoArgs /\ body = NoArgs
    /\ requests = 0 /\ served = [ip \in IPs |-> 0]
    /\ req = [path |-> "none", scheme |-> "none", parts |-> <<>>, status |-> 0,
              next |-> FALSE]
    /\ searchError = FALSE
    /\ \E f1 \in UNION {[1..n -> {"T1", "CB"}] : n \in 0..MaxFrames} :
       \E f2 \in {<<"T2", "CA">>, <<"CA", "DONE">>} :
          flows = [c \in 1..2 |->
                     [frames |-> IF c = 1 THEN f1 ELSE f2,
                      pos |-> 0, buffer |-> <<>>, content |-> <<>>,
                      searchResults |-> Undefined, lastChunk |-> Undefined,
                      pc |-> "reading", result |-> NoResult]]

\* one `await reader.read()` of call c and the loop body after it
FlowRead(c) ==
    /\ flows[c].pc = "reading"
    /\ \E own \in {Closure(flows, c)} :
       \E k \in 1..(Len(Wire(flows[c].frames)) - flows[c].pos) :
       \E lines \in {Split(own.buffer \o SubSeq(Wire(flows[c].frames), flows[c].pos + 1,
                                                flows[c].pos + k))} :
       \E st \in {ProcessLines("consumePerplexityStream", AllButLast(lines), 1,
                                [content |-> own.content, sr |-> own.searchResults,
                                 last |-> own.lastChunk, out |-> <<>>, halt |-> "no"])} :
          flows' = [flows EXCEPT ![c].pos = @ + k,
                                 ![c].buffer = Popped(lines),
                                 ![c].content = st.content,
                                 ![c].searchResults = st.sr,
                                 ![c].lastChunk = st.last]
    /\ UNCHANGED <<entry, toolName, hasArgs, query, streamArg, dpc, netCalls,
                   upstreamStream, response, sent, args, body, requests, served, req,
                   searchError>>
    /\ UNCHANGED <<streamVars, fetchVars>>

\* reader.read() of call c reports done: the code after the while loop
FlowDone(c) ==
    /\ flows[c].pc = "reading"
    /\ flows[c].pos = Len(Wire(flows[c].frames))
    /\ \E own \in {Closure(flows, c)} :
          flows' = [flows EXCEPT
                      ![c].pc = "returned",
                      ![c].result = ReturnValue("consumePerplexityStream", own.content,
                                                own.searchResults, own.lastChunk)]
    /\ UNCHANGED <<entry, toolName, hasArgs, query, streamArg, dpc, netCalls,
                   upstreamStream, response, sent, args, body, requests, served, req,
                   searchError>>
    /\ UNCHANGED <<streamVars, fetchVars>>

FlowNext == \E c \in 1..2 : FlowRead(c) \/ FlowDone(c)

FlowSpec == FlowInit /\ [][FlowNext]_vars

-----------------------------------------------------------------------------
(* What the upstream logically sent, read off the frame names *)

\* the text delta a frame carries
DeltaText(name) ==
    IF name \in AllChunkNames THEN ChunkOf(name).choices[1].delta.content ELSE <<>>

\* frames that carry a non-empty citation list
CitNames == {n \in AllChunkNames :
               "search_results" \in DOMAIN ChunkOf(n) /\ ChunkOf(n).search_results # <<>>}

RECURSIVE ConcatDeltas(_)
ConcatDeltas(fs) ==
    IF fs = <<>> THEN <<>> ELSE DeltaText(Head(fs)) \o ConcatDeltas(Tail(fs))

\* the sentinel, if sent at all, is the last frame
NoEarlyDone(fs) == \A i \in 1..(Len(fs) - 1) : fs[i] # "DONE"

CitIndexes(fs) == {i \in 1..Len(fs) : fs[i] \in CitNames}

LastCitList(fs) ==
    ChunkOf(fs[CHOOSE i \in CitIndexes(fs) : \A j \in CitIndexes(fs) : j <= i]).search_results

RECURSIVE ContentWritten(_)
ContentWritten(evs) ==
    IF evs = <<>> THEN <<>>
    ELSE (IF Head(evs).kind = "content" THEN Head(evs).text ELSE <<>>)
         \o ContentWritten(Tail(evs))

\* the text a consumer has accumulated or forwarded so far
TextView == IF consumer = "streamPerplexityToSSE" THEN ContentWritten(out) ELSE content

\* the consumer ran to its normal end
Completed == spc \in {"returned", "responded"} /\ ~readFailed

-----------------------------------------------------------------------------
(* Claims on the stream consumers *)

\* C1: for a stream of 'data: ' frames ending in [DONE], under every split
\* into read chunks, the text accumulated by consumePerplexityStream and
\* handleStreamingResponse is the concatenation of the deltas in arrival order.
C1_TextIsConcatenation ==
    LET \* newline-terminated 'data: ' frames with JSON payloads, ending in
        \* the sentinel
        WellFormedDone(fs) ==
            /\ Len(fs) >= 1
            /\ fs[Len(fs)] = "DONE"
            /\ \A i \in 1..(Len(fs) - 1) : fs[i] \in ChunkNames
    IN (consumer \in Accumulators /\ Completed /\ WellFormedDone(frames))
           => content = ConcatDeltas(frames)

C1_Witness ==
    /\ consumer = "consumePerplexityStream" /\ Completed
    /\ frames = <<"T2", "T1", "DONE">>
    /\ content = <<"b", "c", "a">>

\* C4: when several records carry a non-empty citation list, the final
\* citations are the list of the last such record (last-writer-wins).
C4_LastWriterWins ==
    (consumer \in Accumulators /\ Completed /\ NoEarlyDone(frames)
       /\ Cardinality(CitIndexes(frames)) >= 2)
        => searchResults = Some(LastCitList(frames))

\* C5: if the only citation list is on frame k, later records without a
\* citation field leave it untouched: the final citations are frame k's list.
C5_CitationsKept ==
    (Completed /\ NoEarlyDone(frames) /\ Cardinality(CitIndexes(frames)) = 1)
        => searchResults = Some(LastCitList(frames))

C5_Witness ==
    /\ consumer = "streamPerplexityToSSE" /\ Completed
    /\ frames = <<"CB", "T1", "T2">>
    /\ searchResults = Some(<<CitB, CitA>>)

\* C6: a frame whose payload is not valid JSON is skipped: the valid frames
\* around it are still accumulated in order, and no exception leaves the loop.
C6_MalformedSkipped ==
    ((\E i \in 1..Len(frames) : frames[i] = "BAD") /\ NoEarlyDone(frames))
        => /\ spc # "threw" \/ readFailed
           /\ (\E i \in 1..Len(out) : out[i].kind = "error") => readFailed
           /\ Completed => TextView = ConcatDeltas(frames)

C6_Witness ==
    /\ consumer = "streamPerplexityToJsonRpcSSE" /\ Completed
    /\ frames = <<"T1", "BAD", "T2">>
    /\ content = <<"a", "b", "c">>

\* C33: the accumulated text is append-only: at every step of every stream
\* consumer the text before the step is a prefix of the text after it.
C33_TextAppendOnly ==
    [][LET old == TextView
           new == TextView'
       IN Len(old) <= Len(new) /\ SubSeq(new, 1, Len(old)) = old]_vars

C33_Witness ==
    /\ consumer = "handleStreamingResponse" /\ spc = "reading"
    /\ frames = <<"T1", "T2", "T1">>
    /\ content = <<"a", "b", "c">> /\ pos < Len(wire)

-----------------------------------------------------------------------------
(* Claims on the decoder buffer and the accumulator's edge cases *)

\* number of upstream lines that have completely arrived
CompleteLines == Cardinality({i \in 1..pos : IsNL(wire[i])})

\* C22: the trailing incomplete line is retained and neither processed
\* early nor discarded: while reading, the buffer holds exactly the bytes
\* after the last newline and the text accumulated is that of the complete
\* lines; when the byte source ends, every line sent has been processed.
C22_TailRetained ==
    (consumer \in Accumulators /\ NoEarlyDone(frames) /\ ~readFailed)
        => LET \* index of the last newline received so far (0: none)
               LastNewline ==
                   IF \E i \in 1..pos : IsNL(wire[i])
                   THEN CHOOSE i \in 1..pos :
                            IsNL(wire[i]) /\ \A j \in (i + 1)..pos : ~IsNL(wire[j])
                   ELSE 0
           IN
           /\ spc = "reading"
                => /\ buffer = SubSeq(wire, LastNewline + 1, pos)
                   /\ content = ConcatDeltas(SubSeq(frames, 1, CompleteLines))
           /\ spc \in {"returned", "responded"} => content = ConcatDeltas(frames)

\* C23: once the sentinel has been decoded the result is frozen: the text,
\* the citations and the record that id, model and usage are read from all
\* come from the frames sent before the sentinel.
C23_FrozenAfterSentinel ==
    (consumer \in Accumulators /\ Completed /\ wire = Wire(frames)
       /\ \E i \in 1..Len(frames) : frames[i] = "DONE")
        => \* pre: the frames sent before the first sentinel
           \E pre \in {SubSeq(frames, 1,
                               (CHOOSE i \in 1..Len(frames) :
                                   frames[i] = "DONE"
                                   /\ \A j \in 1..(i - 1) : frames[j] # "DONE") - 1)} :
             /\ content = ConcatDeltas(pre)
             /\ IsDefined(searchResults)
                   => \E i \in 1..Len(pre) :
                         /\ HasSearchResults(ChunkOf(pre[i]))
                         /\ Val(searchResults) = ChunkOf(pre[i]).search_results
             /\ IsDefined(lastChunk)
                   => \E i \in 1..Len(pre) : Val(lastChunk) = ChunkOf(pre[i])

\* C24: a record whose citation list is present but empty does not change
\* the accumulated citations: when exactly one record carries a non-empty
\* list, that list is the final one, wherever the empty lists come.
C24_EmptyListIgnored ==
    (Completed /\ wire = Wire(frames) /\ NoEarlyDone(frames)
       /\ (\E i \in 1..Len(frames) : frames[i] = "ES")
       /\ Cardinality(CitIndexes(frames)) = 1)
        => searchResults = Some(LastCitList(frames))

\* indexes of the frames that are JSON records
RecordIndexes(fs) == {i \in 1..Len(fs) : fs[i] \in AllChunkNames}

Max(S) == CHOOSE i \in S : \A j \in S : j <= i

\* id, model and usage as read from one record
MetaOf(chunk) ==
    [id |-> IF "id" \in DOMAIN chunk THEN chunk.id ELSE <<"unknown">>,
     model |-> IF "model" \in DOMAIN chunk THEN chunk.model ELSE <<"sonar">>,
     usage |-> IF "usage" \in DOMAIN chunk THEN <<chunk.usage>> ELSE <<>>]

\* C25 as stated: id, model and usage are last-seen-wins per field: each is
\* the value of the last record that carries the field.
C25_LastSeenPerField ==
    (consumer = "consumePerplexityStream" /\ Completed /\ wire = Wire(frames)
       /\ NoEarlyDone(frames))
        => LET \* indexes of the records that carry field f
               CarrierIndexes(f) ==
                   {i \in RecordIndexes(frames) : f \in DOMAIN ChunkOf(frames[i])}
               \* field f of the last record that carries it, or dflt
               LastCarried(f, dflt) ==
                   IF CarrierIndexes(f) = {} THEN dflt
                   ELSE ChunkOf(frames[Max(CarrierIndexes(f))])[f]
           IN  /\ result.id = LastCarried("id", <<"unknown">>)
               /\ result.model = LastCarried("model", <<"sonar">>)
               /\ result.usage = (IF CarrierIndexes("usage") = {} THEN <<>>
                                  ELSE <<LastCarried("usage", <<>>)>>)

\* C25 amended: id, model and usage are read together from one record, the
\* last one parsed, with 'unknown', 'sonar' and no usage for what it lacks.
\* Without frames after the sentinel that record is the last record that
\* arrived with its newline.
C25_LastRecordWins ==
    (consumer = "consumePerplexityStream" /\ Completed)
        => LET NoMeta == [id |-> <<"unknown">>, model |-> <<"sonar">>, usage |-> <<>>]
               ResultMeta ==
                   [id |-> result.id, model |-> result.model, usage |-> result.usage]
           IN
           \* fs: the lines that arrive with their newline
           \E fs \in {IF wire = Wire(frames) THEN frames ELSE AllButLast(frames)} :
             /\ \/ ResultMeta = NoMeta
                \/ \E i \in RecordIndexes(fs) : ResultMeta = MetaOf(ChunkOf(fs[i]))
             /\ NoEarlyDone(frames)
                   => ResultMeta = (IF RecordIndexes(fs) = {} THEN NoMeta
                                    ELSE MetaOf(ChunkOf(fs[Max(RecordIndexes(fs))])))

C25_Witness ==
    /\ consumer = "consumePerplexityStream" /\ Completed
    /\ frames = <<"U1", "M2", "DONE">> /\ wire = Wire(frames)
    /\ result.id = <<"i2">> /\ result.model = <<"m2">> /\ result.usage = <<>>

\* C37: a frame skipped by the decoder's error recovery (a payload that is
\* not valid JSON, or a JSON record without `choices`) leaves the accumulated
\* state unchanged: consumePerplexityStream returns the text, citations, id,
\* model and usage it returns for the stream without that frame.
C37_SkippedFrameNoEffect ==
    (consumer = "consumePerplexityStream" /\ Completed
       /\ \A i \in 1..Len(frames) : frames[i] \in {"U1", "NC", "NS", "BAD"})
        => LET Kept(f) == f \notin {"NC", "NS", "BAD"}
           IN result = Consume(consumer, SelectSeq(frames, Kept))

\* C38: a record that carries a citation list updates the accumulated
\* citations also when it carries no `choices` field: when the only records
\* with citations are such records, their list is the final one.
C38_CitationsWithoutChoices ==
    (consumer \in Accumulators /\ Completed
       /\ (\A i \in 1..Len(frames) : frames[i] \in {"U1", "NC", "NS", "BAD"})
       /\ \E i \in 1..Len(frames) : frames[i] = "NS")
        => searchResults = Some(ChunkOf("NS").search_results)

-----------------------------------------------------------------------------
(* Claims on the live re-stream (streamPerplexityToSSE) *)


\* the non-empty text deltas of the frames, one entry per delta
RECURSIVE NonEmptyDeltas(_)
NonEmptyDeltas(fs) ==
    IF fs = <<>> THEN <<>>
    ELSE (IF DeltaText(Head(fs)) # <<>> THEN <<DeltaText(Head(fs))>> ELSE <<>>)
         \o NonEmptyDeltas(Tail(fs))

\* the texts of the content events written, one entry per event
RECURSIVE EventTexts(_)
EventTexts(evs) ==
    IF evs = <<>> THEN <<>>
    ELSE (IF Head(evs).kind = "content" THEN <<Head(evs).text>> ELSE <<>>)
         \o EventTexts(Tail(evs))

EventsOfKind(k) == {i \in 1..Len(out) : out[i].kind = k}

\* C18: in live re-stream mode without a read error, after every read the
\* content events written are exactly the non-empty deltas of the lines
\* received so far, in order; at most one terminal marker is written, it is
\* the last event, and a finished request has exactly one, with or without
\* an upstream sentinel.
C18_ContentThenOneMarker ==
    (consumer = "streamPerplexityToSSE" /\ ~readFailed /\ spc # "unreadable")
        => /\ NoEarlyDone(frames)
                => EventTexts(out) = NonEmptyDeltas(SubSeq(frames, 1, CompleteLines))
           /\ Cardinality(EventsOfKind("done")) <= 1
           /\ \A i \in EventsOfKind("done") : i = Len(out) /\ ended
           /\ spc = "returned" => Cardinality(EventsOfKind("done")) = 1

C18_Witness ==
    /\ consumer = "streamPerplexityToSSE" /\ spc = "returned" /\ ~readFailed
    /\ frames = <<"T2", "BLANK", "T1">>
    /\ out = <<ContentEvent(<<"b", "c">>), ContentEvent(<<"a">>), DoneMarker>>

\* C19: in live re-stream mode at most one citations event is written; it
\* comes after every content event and immediately before the terminal
\* marker, after which the output is closed, and it carries the last
\* citation list received.
C19_CitationsOnceAtEnd ==
    (consumer = "streamPerplexityToSSE")
        => /\ Cardinality(EventsOfKind("citations")) <= 1
           /\ \A i \in EventsOfKind("citations") :
                 /\ i = Len(out) - 1 /\ out[Len(out)].kind = "done" /\ ended
                 /\ \A j \in EventsOfKind("content") : j < i
                 /\ IsDefined(searchResults)
                 /\ out[i].text = formatSearchResults(Val(searchResults))
           /\ (Completed /\ NoEarlyDone(frames) /\ CitIndexes(frames) # {})
                 => /\ EventsOfKind("citations") # {}
                    /\ \A i \in EventsOfKind("citations") :
                          out[i].text = formatSearchResults(LastCitList(frames))

C19_Witness ==
    /\ consumer = "streamPerplexityToSSE" /\ spc = "returned" /\ ~readFailed
    /\ frames = <<"CA", "CB", "DONE">>
    /\ out = <<ContentEvent(<<"d">>), CitationsEvent(<<CitB, CitA>>), DoneMarker>>

\* C20: when a live re-stream fails after the upstream response was
\* obtained (body not readable, or read error mid-stream), an error event is
\* written as the last event and the caller's channel is closed.
C20_ErrorEventThenClose ==
    (consumer = "streamPerplexityToSSE" /\ (readFailed \/ spc = "unreadable"))
        => /\ ended
           /\ out # <<>> /\ out[Len(out)].kind = "error"

\* C21: in live re-stream mode, while an outbound write could not be flushed
\* (the backlog has reached the high-water mark) no further upstream read
\* is issued.
C21_ReadsWaitForDrain ==
    [][LET \* events written to the response and not yet taken by the caller
           Backlog == Len(out) - delivered
       IN (consumer = "streamPerplexityToSSE" /\ Backlog >= HighWaterMark)
              => pos' = pos]_vars

-----------------------------------------------------------------------------
(* Claims on the consolidated response *)

\* the upstream sent no text and no citations
NoTextNoCitations(fs) ==
    \A i \in 1..Len(fs) :
        fs[i] \in {"DONE", "BAD", "BLANK"}
        \/ /\ fs[i] \in ChunkNames \cup EmptyChunkNames
           /\ ChunkOf(fs[i]).choices[1].delta.content = <<>>
           /\ "search_results" \in DOMAIN ChunkOf(fs[i]) => ChunkOf(fs[i]).search_results = <<>>

\* C13: in consolidated mode a stream with no text delta and no citations
\* yields exactly one segment, the text "No response generated.".
C13_PlaceholderOnly ==
    (consumer = "consumePerplexityStream" /\ spc = "responded" /\ NoTextNoCitations(frames))
        => segments = <<[type |-> "text", text |-> <<"No response generated.">>,
                         results |-> <<>>]>>

C13_Witness ==
    /\ consumer = "consumePerplexityStream" /\ spc = "responded"
    /\ frames = <<"E0", "ES", "DONE">>
    /\ segments = <<[type |-> "text", text |-> <<"No response generated.">>, results |-> <<>>]>>

\* indexes of the segments of a given type
SegsOfType(t) == {i \in 1..Len(segments) : segments[i].type = t}

BufferedAnswer(fs) ==
    [text |-> ConcatDeltas(fs),
     search_results |-> IF CitIndexes(fs) = {} THEN Undefined ELSE Some(LastCitList(fs))]

\* C26: for the same upstream answer (same text, same citation list) the
\* response built after consuming the stream equals the response built from
\* the buffered JSON, also when the text is empty.
C26_StreamingTransparent ==
    (consumer = "consumePerplexityStream" /\ spc = "responded"
       /\ NoEarlyDone(frames) /\ Cardinality(CitIndexes(frames)) <= 1
       /\ \A i \in 1..Len(frames) : frames[i] # "ES")
        => segments = BufferedContent(BufferedAnswer(frames))

\* C39: in consolidated mode consumePerplexityStream returns only after the
\* byte source has reported end-of-stream: decoding the sentinel does not
\* end consumption, and every byte the upstream sends before it closes the
\* connection is read first.
C39_ReturnsAtEndOfStream ==
    (consumer = "consumePerplexityStream" /\ spc \in {"returned", "responded"})
        => pos = Len(wire)

C39_Witness ==
    /\ consumer = "consumePerplexityStream" /\ spc = "returned"
    /\ frames = <<"DONE", "T1">> /\ pos = Len(wire)
    /\ content = <<"a">>

\* C14: every successful response has a text segment with non-empty text:
\* the tool response built from a consumed stream, and the final JSON-RPC
\* event written at the sentinel.
C14_TextNeverEmpty ==
    /\ (spc = "responded")
          => \E i \in 1..Len(segments) : segments[i].type = "text" /\ segments[i].text # <<>>
    /\ \A i \in 1..Len(out) : out[i].kind = "final" => out[i].text # <<>>

-----------------------------------------------------------------------------
(* Claims on the transport client *)

\* retryFetch took the retry path after the first attempt
Retried == attempt >= 1 \/ (attempt = 0 /\ fpc = "backoff")

\* C2: one deadline governs the whole upstream call, the reading of the body
\* included: when the deadline passes while the body is being read, the
\* read is aborted.
C2_DeadlineCoversBody ==
    (fpc = "body" /\ elapsed) => aborted

\* C7: with two attempts and no deadline expiry, a retryable status followed
\* by a 2xx makes exactly two calls and returns the second response; a
\* non-retryable non-2xx first status makes exactly one call and is returned.
C7_RetryThenSuccess ==
    ~elapsed =>
        /\ (Len(replies) = 2 /\ replies[1] \in {408, 429, 500, 502, 503, 504}
              /\ replies[2] = 200)
             => (calls = 2 /\ returned = 200)
        /\ (Len(replies) >= 1 /\ replies[1] \in {404, 501})
             => (calls = 1 /\ Len(replies) = 1 /\ returned = replies[1])

C7_Witness ==
    /\ ~elapsed /\ replies = <<503, 200>> /\ calls = 2 /\ returned = 200
    /\ fpc = "done" /\ outcome = "ok"

C9_AtMostTwoCalls == calls <= 2

C9_Witness ==
    /\ calls = 2 /\ Len(replies) = 2 /\ replies[1] = 0 /\ fpc = "done"

\* C10: if the upstream never answers, the call does not stay pending: the
\* deadline aborts the attempt in flight and the call fails with the timeout
\* error, not with a network error or a success.  (An attempt is unanswered
\* when more calls were issued than replies received.)
C10_TimeoutWhenSilent ==
    /\ []((fpc = "done" /\ Len(replies) < calls) => (outcome = "timeout" /\ aborted))
    /\ ((fpc = "fetching" /\ Len(replies) < calls)
          ~> (Len(replies) = calls \/ outcome = "timeout"))

C10_Witness ==
    /\ fpc = "done" /\ replies = <<>> /\ calls = 1 /\ elapsed /\ outcome = "timeout"

\* C36: once the deadline timer has fired, retryFetch starts no further
\* network attempt, and the call ends with the timeout error, not with the
\* status error of the first attempt.
C36_NoAttemptAfterDeadline ==
    [][/\ aborted => calls' = calls
       /\ (aborted' /\ fpc' = "done") => outcome' = "timeout"]_vars

C36_Witness ==
    /\ fpc = "done" /\ replies = <<503>> /\ calls = 1 /\ attempt = 1
    /\ aborted /\ outcome = "timeout"

\* the response retryFetch hands back is the last reply, and it is non-2xx:
\* a non-retryable status on the first attempt or any failure status on the
\* second
LastReplyIsFinalFailure ==
    /\ Len(replies) >= 1 /\ Len(replies) = calls
    /\ replies[Len(replies)] \in Statuses \ {200}
    /\ \/ Len(replies) = 1 /\ replies[1] \in {404, 501}
       \/ Len(replies) = 2

\* C11: when the last upstream response is non-2xx, performSearch ends with
\* the upstream error, whose message carries that status and the body text;
\* the response is never decoded or returned as a result.
C11_Non2xxIsError ==
    LastReplyIsFinalFailure =>
        /\ fpc \notin {"body", "json"}
        /\ outcome \in {"pending", "upstream"}
        /\ fpc = "done" =>
              /\ outcome = "upstream"
              /\ errorText.status = replies[Len(replies)]
              /\ errorText.body \in {"response.text()", "Unable to parse error response"}

C11_Witness ==
    /\ fpc = "done" /\ replies = <<503, 502>> /\ outcome = "upstream"
    /\ errorText = [status |-> 502, body |-> "response.text()"]

-----------------------------------------------------------------------------
(* Claims on the request dispatcher *)

IsErrorResponse(r) == r.isError = "true" \/ r.shape = "jsonrpc-error"

\* C3: a tool call whose arguments lack `query`, or carry a `query` that is
\* not a string, gets an input error at every entry point and causes no
\* upstream network call.
C3_NoQueryNoCall ==
    (~hasArgs \/ ~QueryIsString)
        => /\ netCalls = 0
           /\ dpc = "responded" => IsErrorResponse(response)

\* the servers of part_000 and part_001
CurrentEntries == {"part_001:CallTool", "part_000:/mcp", "part_000:/mcp/call"}

\* C12: every failed tool call is answered with a payload that has
\* isError: true, and a transport-level 5xx status is used only when the
\* caller's input is malformed, never for an upstream or network failure.
C12_FailuresAreStructured ==
    (entry \in CurrentEntries /\ dpc = "responded" /\ IsErrorResponse(response))
        => /\ response.isError = "true"
           \* malformed input: no arguments, or a query that is not a string
           /\ response.http >= 500 => (~hasArgs \/ ~QueryIsString)

C17_StreamDefaultsTrue ==
    (entry \in CurrentEntries /\ ~StreamIsBoolean /\ netCalls >= 1)
        => upstreamStream = "true"

\* the documented limit of requests per IP address and window
RateLimitMax == 100

\* basicAuthMiddleware answers 401: the request does not reach a handler
Unauthorized(ip) ==
    /\ requests < MaxRequests
    /\ requests' = requests + 1
    /\ UNCHANGED <<entry, toolName, hasArgs, query, streamArg, dpc, netCalls,
                   upstreamStream, response, sent, args, body, served, req, flows,
                   searchError>>
    /\ UNCHANGED <<streamVars, fetchVars>>

\* express.json, then basicAuthMiddleware calls next(): the handler runs
Serve(ip) ==
    /\ requests < MaxRequests
    /\ requests' = requests + 1
    /\ served' = [served EXCEPT ![ip] = @ + 1]
    /\ UNCHANGED <<entry, toolName, hasArgs, query, streamArg, dpc, netCalls,
                   upstreamStream, response, sent, args, body, req, flows, searchError>>
    /\ UNCHANGED <<streamVars, fetchVars>>

\* the HTTP server of runServer, seen from its middleware chain
ServeInit ==
    /\ FetchIdle
    /\ consumer = "consumePerplexityStream" /\ frames = <<>> /\ wire = <<>>
    /\ spc = "idle" /\ StreamIdle
    /\ DispatchIdle

ServeNext == \E ip \in IPs : Unauthorized(ip) \/ Serve(ip)

ServeSpec == ServeInit /\ [][ServeNext]_vars

\* C30: within one window at most 100 requests of one IP address are
\* served; every further request of that address reaches no handler.
C30_RateLimited == \A ip \in IPs : served[ip] <= RateLimitMax

\* the credentials the server is configured with (process.env)
MCP_USER == "u"
MCP_PASS == "p"

\* basicAuthMiddleware: 401 when it answers itself, 0 when it calls next().
\* h.parts is credentials.split(':') of the decoded header
basicAuthMiddleware(h) ==
    IF h.scheme # "Basic" THEN 401
    ELSE LET username == IF Len(h.parts) >= 1 THEN h.parts[1] ELSE ""
             password == IF Len(h.parts) >= 2 THEN h.parts[2] ELSE "undefined"
         IN IF username # MCP_USER \/ password # MCP_PASS THEN 401 ELSE 0

\* one request to a route of runServer: no Authorization header, another
\* scheme, or Basic credentials made of up to three colon-separated parts
AuthInit ==
    /\ FetchIdle
    /\ consumer = "consumePerplexityStream" /\ frames = <<>> /\ wire = <<>>
    /\ spc = "idle" /\ StreamIdle
    /\ entry = "none" /\ toolName = "none" /\ hasArgs = FALSE
    /\ query = "absent" /\ streamArg = "absent" /\ dpc = "idle"
    /\ netCalls = 0 /\ upstreamStream = "unset" /\ response = NoResponse
    /\ sent = 0 /\ args = NoArgs /\ body = NoArgs
    /\ requests = 0 /\ served = [ip \in IPs |-> 0] /\ flows = <<>>
    /\ searchError = FALSE
    /\ \E path \in {"/", "/health", "/register", "/mcp", "/mcp/tools", "/mcp/call"} :
       \E scheme \in {"none", "Bearer", "Basic"} :
       \E parts \in UNION {[1..n -> {"u", "p", "x"}] : n \in 0..3} :
          /\ scheme # "Basic" => parts = <<>>
          /\ req = [path |-> path, scheme |-> scheme, parts |-> parts,
                    status |-> 0, next |-> FALSE]

\* the middleware chain of the route: '/' and '/health' have no middleware
RouteRequest ==
    /\ req.path # "none" /\ req.status = 0 /\ ~req.next
    /\ \E st \in {IF req.path \in {"/", "/health"} THEN 0
                  ELSE basicAuthMiddleware(req)} :
         req' = [req EXCEPT !.status = st, !.next = (st = 0)]
    /\ UNCHANGED <<entry, toolName, hasArgs, query, streamArg, dpc, netCalls,
                   upstreamStream, response, sent, args, body, requests, served,
                   flows, searchError>>
    /\ UNCHANGED <<streamVars, fetchVars>>

AuthSpec == AuthInit /\ [][RouteRequest]_vars

\* C31: a request reaches a protected handler only if its Basic credentials
\* are exactly MCP_USER and MCP_PASS (the user is the text before the first
\* colon, the password all the text after it); every other request to a
\* protected route gets 401; '/' and '/health' are served without
\* authentication.
C31_OnlyExactCredentials ==
    (req.next \/ req.status # 0)
        => LET exact == req.scheme = "Basic" /\ req.parts = <<MCP_USER, MCP_PASS>>
           IN IF req.path \in {"/", "/health"} THEN req.next
              ELSE /\ req.next <=> exact
                   /\ ~exact => req.status = 401

\* the entry points of the HTTP server of part_000
HttpEntries == {"part_000:/mcp", "part_000:/mcp/call"}

\* C27: the HTTP server of part_000 sends only 'sonar' or 'sonar-pro' as the
\* model of the upstream request.
C27_ModelLimited ==
    (entry \in HttpEntries /\ netCalls >= 1)
        => body.model \in {Str("sonar"), Str("sonar-pro")}

\* C28: in every upstream request body max_tokens, when present, lies
\* between 1 and the variant's ceiling and temperature, when present,
\* between 0 and 2.
C28_NumbersInRange ==
    (entry \in CurrentEntries /\ netCalls >= 1)
        => /\ body.max_tokens # Absent
                => /\ body.max_tokens.n >= 1
                   /\ body.max_tokens.n <= (IF entry \in HttpEntries THEN 2048 ELSE 4096)
           /\ body.temperature # Absent
                => (body.temperature.n >= 0 /\ body.temperature.n <= 2)

\* C29: an optional argument of the wrong type does not make the handler
\* reject the call: the upstream request is issued, with the default model
\* for a non-string model, without max_tokens / temperature when they are
\* not numbers, and with a boolean stream flag.
C29_WrongTypeIgnored ==
    (dpc # "received")
        => /\ netCalls = 1
           /\ args.model.type # "string" => body.model = Str("sonar")
           /\ args.max_tokens.type # "number" => body.max_tokens = Absent
           /\ args.temperature.type # "number" => body.temperature = Absent
           /\ upstreamStream \in {"true", "false"}

C29_Witness ==
    /\ entry = "part_000:/mcp/call" /\ dpc = "searching" /\ netCalls = 1
    /\ args = [model |-> Num(7), max_tokens |-> Str("100"), temperature |-> Str("hot")]
    /\ streamArg = "str"
    /\ body = [model |-> Str("sonar"), max_tokens |-> Absent, temperature |-> Absent]

\* C32: for every interleaving of the reads of two concurrent tool calls,
\* what each call returns is what its own stream gives when consumed alone.
C32_CallsIsolated ==
    \A c \in DOMAIN flows :
        flows[c].pc = "returned"
            => flows[c].result = Consume("consumePerplexityStream", flows[c].frames)

C32_Witness ==
    /\ DOMAIN flows = 1..2
    /\ flows[1].frames = <<"T1", "CB">> /\ flows[2].frames = <<"T2", "CA">>
    /\ flows[1].pc = "reading" /\ flows[1].content = <<"a">>
    /\ flows[2].pc = "returned"
    /\ flows[2].result.text = <<"b", "c">>
    /\ flows[2].result.search_results = Some(<<CitA>>)

\* C34: the stdio CallTool handler answers every request with a payload
\* that has a content list and an isError flag, and isError is true exactly
\* when the arguments are missing, the query is not a string, the tool is
\* unknown, or performSearch failed.
C34_StdioAlwaysAnswers ==
    (entry = "part_001:CallTool" /\ dpc = "responded")
        => /\ sent = 1
           /\ response.shape = "content"
           /\ response.isError \in {"true", "false"}
           /\ response.isError = "true"
                 <=> (~hasArgs \/ ~QueryIsString \/ toolName # Tool \/ searchError)

C34_Witness ==
    /\ entry = "part_001:CallTool" /\ dpc = "responded" /\ toolName = Tool
    /\ query = "str" /\ netCalls = 1 /\ searchError
    /\ response = [http |-> 0, shape |-> "content", isError |-> "true", code |-> 0]

\* C35: an upstream call is issued only for a query that is a non-empty
\* string, and a request whose query is the empty string is answered with
\* an input error.
C35_QueryNonEmpty ==
    /\ netCalls >= 1 => query = "str"
    /\ (query = "empty" /\ dpc = "responded")
          => (IsErrorResponse(response) /\ ~searchError)

====
